---- MODULE Spec2Model ----
(***************************************************************************)
(* Model of the choropleth grid layer (src/layer.ts, src/shaders.ts and    *)
(* the gl_util helpers): createLayer, the onAdd and render hooks of the    *)
(* returned layer, and the fragment shader that runs for a covered pixel.  *)
(*                                                                         *)
(* Geographic values are whole degrees.  Projected (Mercator) values are   *)
(* fixed-point integers, see MercatorX / MercatorY.  The shader's float    *)
(* arithmetic is modelled exactly, as rationals num/den.                   *)
(***************************************************************************)
EXTENDS Integers, Sequences, FiniteSets, TLC

VARIABLES
    options,    \* the argument of createLayer
    map,        \* host: [projection, bounds, drawingBuffer]
    layer,      \* "none" | "handle" | "threw": outcome of createLayer
    closure,    \* createLayer's constants and its four closure variables
    gl,         \* the WebGL context: call log, objects, uniforms, diagnostics
    error,      \* message of the error thrown by the last call, or NoError
    calls,      \* host calls so far: [last, onAdd, render, setup, setupError]
    frag        \* the fragment shader's output of the last draw call, per pixel

vars == <<options, map, layer, closure, gl, error, calls, frag>>

----
\* Bounds of the model.
MaxX == 2              \* most rows of dataGrid (longitude axis)
MaxY == 2              \* most cells in a row (latitude axis)
MaxRenders == 2        \* most render calls by the host
MaxBuffer == 2         \* largest drawing buffer width/height in pixels
MaxSteps == 4          \* longest step table given to the shader on its own

\* Handles.
Undefined == -1        \* a `let` that was never assigned
Null == 0              \* the null a GL create call may return
NoError == "none"

----
\* Small helpers.
Min(a, b) == IF a < b THEN a ELSE b
Max(a, b) == IF a > b THEN a ELSE b

\* floor(n / d) for d > 0 (GLSL floor of an exact quotient).
FloorDiv(n, d) == n \div d

RECURSIVE Flatten(_)
Flatten(ss) == IF ss = <<>> THEN <<>> ELSE Head(ss) \o Flatten(Tail(ss))

Reverse(s) == [k \in 1..Len(s) |-> s[Len(s) + 1 - k]]

----
\* Inputs of createLayer.

\* A row of dataGrid: an array of cell values, or undefined.
Row(cells) == [defined |-> TRUE, cells |-> cells]
UndefinedRow == [defined |-> FALSE, cells |-> <<>>]

\* The value stored in cell (i, j), 0-based: every cell holds its own value,
\* so that a colour identifies the cell it came from.
CellValue(i, j) == 10 * i + j + 1

RowOfLength(i, n) == Row([j \in 1..n |-> CellValue(i - 1, j - 1)])

\* Row lengths 0..MaxY, and -1 for an undefined row.
RowShapes == {-1} \cup (0..MaxY)

\* The grid of n rows, all of length m but the last, which is of shape last.
GridOfShape(n, m, last) ==
    [i \in 1..n |->
        IF i < n THEN RowOfLength(i, m)
        ELSE IF last = -1 THEN UndefinedRow ELSE RowOfLength(i, last)]

\* The empty grid, the rectangular grids (last = m), and the grids whose
\* last row is shorter, longer or undefined.
DataGrids ==
    {GridOfShape(n, m, last) : n \in 0..MaxX, m \in 0..MaxY, last \in RowShapes}

\* The caller's colouring functions.
GetColorFns == {"palette", "overflow", "negative", "short"}

GetColor(fn, v) ==
    CASE fn = "palette"  -> <<v, 255 - v, 0, 255>>
      [] fn = "overflow" -> IF v = 1 THEN <<300, 0, 0, 255>> ELSE <<v, 255 - v, 0, 255>>
      [] fn = "negative" -> IF v = 1 THEN <<v, 0, -1, 255>> ELSE <<v, 255 - v, 0, 255>>
      [] fn = "short"    -> <<v, 255 - v, 0>>

OffsetLats == {-91, -10, 91}
OffsetLngs == {-181, 0, 181}
StepLats == {0, 10, 181}
StepLngs == {0, 10, 361}
Opacities == {-1, 1, 2}

Options ==
    [dataGrid : DataGrids,
     getColor : GetColorFns,
     stepSize : [lat : StepLats, lng : StepLngs],
     offset   : [lat : OffsetLats, lng : OffsetLngs],
     opacity  : Opacities]

----
\* MercatorCoordinate.fromLngLat, in fixed point.  x is linear in the
\* longitude; y decreases with the latitude and is not linear in it (the
\* series lat + lat^3 / MercScale of the Mercator latitude function, in
\* degrees).  Both are in units of 1 / (360 * MercScale) of the world.
MercScale == 19698

MercatorX(lng) == MercScale * (180 + lng)
MercatorY(lat) == MercScale * (180 - lat) - lat * lat * lat

FromLngLat(lngLat) == [x |-> MercatorX(lngLat.lng), y |-> MercatorY(lngLat.lat)]

----
\* verifyOptions: the message of the error it throws, or NoError.

ErrOffsetLat == "Offset latitude must be between -90 and 90."
ErrOffsetLng == "Offset longitude must be between -180 and 180."
ErrStepLat == "Step size latitude must be greater than 0 and less than or equal to 180."
ErrStepLng == "Step size must be greater than 0 and less than or equal to 360."
ErrUniform == "Data array dimensions are not uniform."
ErrUndefinedRow == "A row in the data grid is undefined."
ErrOpacity == "Opacity must be greater than or equal to 0 and less than or equal to 1."
ErrColor == "Color values must be between 0 and 255."
ErrTypeError == "TypeError"

\* dataArray.every(row => row.length === dataArray[0]?.length): `every`
\* visits the rows in order and stops at the first row that fails; reading
\* .length of an undefined row throws a TypeError.
RowLengthCheck(dataArray) ==
    LET bad == {k \in 1..Len(dataArray) :
                    \/ ~dataArray[k].defined
                    \/ Len(dataArray[k].cells) # Len(dataArray[1].cells)}
    IN  IF bad = {} THEN NoError
        ELSE LET k == CHOOSE k \in bad : \A m \in bad : k <= m
             IN  IF dataArray[k].defined THEN ErrUniform ELSE ErrTypeError

\* VerifyOptions without the upper bound of the opacity.
VerifyOptionsOpacityUnbounded(o) ==
    IF o.offset.lat < -90 \/ o.offset.lat > 90 THEN ErrOffsetLat
    ELSE IF o.offset.lng < -180 \/ o.offset.lat > 180 THEN ErrOffsetLng
    ELSE IF o.stepSize.lat <= 0 \/ o.stepSize.lat > 180 THEN ErrStepLat
    ELSE IF o.stepSize.lng <= 0 \/ o.stepSize.lng > 360 THEN ErrStepLng
    ELSE IF RowLengthCheck(o.dataGrid) # NoError THEN RowLengthCheck(o.dataGrid)
    ELSE IF \E k \in 1..Len(o.dataGrid) : ~o.dataGrid[k].defined THEN ErrUndefinedRow
    ELSE IF o.opacity < 0 THEN ErrOpacity
    ELSE NoError

VerifyOptions(o) ==
    IF o.offset.lat < -90 \/ o.offset.lat > 90 THEN ErrOffsetLat
    ELSE IF o.offset.lng < -180 \/ o.offset.lat > 180 THEN ErrOffsetLng
    ELSE IF o.stepSize.lat <= 0 \/ o.stepSize.lat > 180 THEN ErrStepLat
    ELSE IF o.stepSize.lng <= 0 \/ o.stepSize.lng > 360 THEN ErrStepLng
    ELSE IF RowLengthCheck(o.dataGrid) # NoError THEN RowLengthCheck(o.dataGrid)
    ELSE IF \E k \in 1..Len(o.dataGrid) : ~o.dataGrid[k].defined THEN ErrUndefinedRow
    ELSE IF o.opacity < 0 \/ o.opacity > 1 THEN ErrOpacity
    ELSE NoError

----
\* createLayer.

\* color.every(x => x >= 0 && x <= 255)
ColorInRange(color) == \A k \in 1..Len(color) : color[k] >= 0 /\ color[k] <= 255

\* options.dataGrid.map(row => row.map(p => getColor(p))), without the check.
ColorGridOf(o) ==
    [i \in 1..Len(o.dataGrid) |->
        [j \in 1..Len(o.dataGrid[i].cells) |-> GetColor(o.getColor, o.dataGrid[i].cells[j])]]

\* The check inside the map: it throws at a colour with a component out of
\* range.
ColorError(o) ==
    IF \E i \in 1..Len(o.dataGrid) : \E j \in 1..Len(o.dataGrid[i].cells) :
            ~ColorInRange(GetColor(o.getColor, o.dataGrid[i].cells[j]))
    THEN ErrColor ELSE NoError

GridSizeOf(colorGrid) ==
    [x |-> Len(colorGrid), y |-> IF Len(colorGrid) > 0 THEN Len(colorGrid[1]) ELSE 0]

DataBoundsOf(o, gridSize) ==
    [sw |-> [lat |-> o.offset.lat, lng |-> o.offset.lng],
     ne |-> [lat |-> o.offset.lat + gridSize.y * o.stepSize.lat,
             lng |-> o.offset.lng + gridSize.x * o.stepSize.lng]]

DataBoundsMercatorOf(dataBounds) ==
    LET bottomLeft == FromLngLat(dataBounds.sw)
        topLeft == FromLngLat([lng |-> dataBounds.sw.lng, lat |-> dataBounds.ne.lat])
        bottomRight == FromLngLat([lng |-> dataBounds.ne.lng, lat |-> dataBounds.sw.lat])
        topRight == FromLngLat(dataBounds.ne)
    IN  [bottomLeft |-> bottomLeft, topLeft |-> topLeft,
         bottomRight |-> bottomRight, topRight |-> topRight,
         size |-> [x |-> bottomRight.x - topLeft.x, y |-> bottomRight.y - topLeft.y]]

\* LatStepsFrom with lat > sw.lat as the loop's condition.
RECURSIVE LatStepsFromExclusive(_, _, _)
LatStepsFromExclusive(lat, south, step) ==
    IF lat > south
    THEN <<FromLngLat([lng |-> 0, lat |-> lat]).y>> \o LatStepsFromExclusive(lat - step, south, step)
    ELSE <<>>

\* for(let lat = ne.lat; lat >= sw.lat; lat -= stepSize.lat) push(y(lat))
RECURSIVE LatStepsFrom(_, _, _)
LatStepsFrom(lat, south, step) ==
    IF lat >= south
    THEN <<FromLngLat([lng |-> 0, lat |-> lat]).y>> \o LatStepsFrom(lat - step, south, step)
    ELSE <<>>

LatStepsMercatorOf(o, dataBounds) ==
    LatStepsFrom(dataBounds.ne.lat, dataBounds.sw.lat, o.stepSize.lat)

LngStepMercatorOf(o, dataBounds) ==
    LET a == FromLngLat(dataBounds.sw)
        b == FromLngLat([lng |-> dataBounds.sw.lng + o.stepSize.lng, lat |-> dataBounds.sw.lat])
    IN  b.x - a.x

EmptyClosure ==
    [colorGrid |-> <<>>, gridSize |-> [x |-> 0, y |-> 0],
     dataBoundsMercator |-> <<>>, latStepsMercator |-> <<>>, lngStepMercator |-> 0,
     g_map |-> Undefined, program |-> Undefined, bVertex |-> Undefined, tGrid |-> Undefined]

ClosureOf(o) ==
    LET colorGrid == ColorGridOf(o)
        gridSize == GridSizeOf(colorGrid)
        dataBounds == DataBoundsOf(o, gridSize)
    IN  [colorGrid |-> colorGrid, gridSize |-> gridSize,
         dataBoundsMercator |-> DataBoundsMercatorOf(dataBounds),
         latStepsMercator |-> LatStepsMercatorOf(o, dataBounds),
         lngStepMercator |-> LngStepMercatorOf(o, dataBounds),
         g_map |-> Undefined, program |-> Undefined,
         bVertex |-> Undefined, tGrid |-> Undefined]

CreateLayerError(o) ==
    IF VerifyOptions(o) # NoError THEN VerifyOptions(o) ELSE ColorError(o)

CreateLayer ==
    /\ layer = "none"
    /\ calls' = [calls EXCEPT !.last = "createLayer"]
    /\ error' = CreateLayerError(options)
    /\ IF CreateLayerError(options) # NoError
       THEN /\ layer' = "threw"
            /\ UNCHANGED closure
       ELSE /\ layer' = "handle"
            /\ closure' = ClosureOf(options)
    /\ UNCHANGED <<options, map, gl, frag>>

----
\* The WebGL context.

Call(fn, arg) == [fn |-> fn, arg |-> arg]

\* The context after the calls cs, in order.
Log(g, cs) == [g EXCEPT !.log = @ \o cs]

\* A create* primitive: it returns null (logged as such), or a fresh object.
Alloc(g, fn, isNull, obj) ==
    IF isNull
    THEN [gl |-> Log(g, <<Call(fn, "null")>>), result |-> Null]
    ELSE [gl |-> [Log(g, <<Call(fn, "")>>) EXCEPT !.objects = Append(@, obj)],
          result |-> Len(g.objects) + 1]

NoSource == [attributes |-> {}, uniforms |-> {}, numLatSteps |-> 0, gridSizeX |-> 0, gridSizeY |-> 0]
NoTexImage == [width |-> 0, height |-> 0, pixels |-> <<>>, uploaded |-> FALSE]

\* A GL object; `ok` is COMPILE_STATUS of a shader, LINK_STATUS of a program.
Object(kind) ==
    [kind |-> kind, ok |-> FALSE, source |-> NoSource, image |-> NoTexImage,
     wrap |-> "REPEAT", filter |-> "LINEAR", data |-> <<>>]

EmptyGL ==
    [log |-> <<>>, objects |-> <<>>, console |-> <<>>,
     program |-> Null, texture |-> Null, buffer |-> Null,
     uniforms |-> [n \in {} |-> <<>>], unpackAlignment |-> 4, draws |-> 0,
     drawingBufferWidth |-> 1, drawingBufferHeight |-> 1]

\* The number of calls of fn in a log.
RECURSIVE Count(_, _)
Count(log, fn) ==
    IF log = <<>> THEN 0
    ELSE (IF Head(log).fn = fn THEN 1 ELSE 0) + Count(Tail(log), fn)

----
\* shaders.ts: what a generated source declares and the constants baked
\* into it.
GetVertexSource ==
    [attributes |-> {"a_pos"}, uniforms |-> {"u_matrix"},
     numLatSteps |-> 0, gridSizeX |-> 0, gridSizeY |-> 0]

GetFragmentSource(numLatSteps, gridSizeX, gridSizeY) ==
    [attributes |-> {},
     uniforms |-> {"u_drawingBufferSize", "u_viewportBoundsMercatorMin",
                   "u_viewportBoundsMercatorSize", "u_dataBoundsMercatorMin",
                   "u_lngMercatorStep", "u_latMercatorSteps", "u_opacity",
                   "u_gridTexture"},
     numLatSteps |-> numLatSteps, gridSizeX |-> gridSizeX, gridSizeY |-> gridSizeY]

----
\* gl_util.  Each helper takes the context and returns the context after it,
\* its result, and the message of the error it throws (NoError if none).

ErrVertexShader == "Error creating WebGL vertex shader."
ErrFragmentShader == "Error creating WebGL fragment shader."
ErrProgram == "Error creating WebGL program."
ErrBuffer == "Error creating WebGL buffer."

\* CreateShaderOfType throwing when the shader does not compile.
CreateShaderOfTypeFatal(g, source, isNull, compiles, errNull, diagnostic) ==
    LET a == Alloc(g, "createShader", isNull, Object("shader"))
    IN  IF a.result = Null
        THEN [gl |-> a.gl, result |-> Null, error |-> errNull]
        ELSE LET g1 == Log(a.gl, <<Call("shaderSource", ""), Call("compileShader", ""),
                                   Call("getShaderParameter", "")>>)
                 g2 == [g1 EXCEPT !.objects[a.result].source = source,
                                  !.objects[a.result].ok = compiles]
             IN  [gl |-> g2, result |-> a.result,
                  error |-> IF compiles THEN NoError ELSE diagnostic]

\* createVertexShader and createFragmentShader differ in the shader type and
\* in their messages only.
CreateShaderOfType(g, source, isNull, compiles, errNull, diagnostic) ==
    LET a == Alloc(g, "createShader", isNull, Object("shader"))
    IN  IF a.result = Null
        THEN [gl |-> a.gl, result |-> Null, error |-> errNull]
        ELSE LET g1 == Log(a.gl, <<Call("shaderSource", ""), Call("compileShader", ""),
                                   Call("getShaderParameter", "")>>)
                 g2 == [g1 EXCEPT !.objects[a.result].source = source,
                                  !.objects[a.result].ok = compiles]
                 g3 == IF ~compiles
                       THEN [Log(g2, <<Call("getShaderInfoLog", "")>>)
                                EXCEPT !.console = Append(@, diagnostic)]
                       ELSE g2
             IN  [gl |-> g3, result |-> a.result, error |-> NoError]

CreateVertexShader(g, source, isNull, compiles) ==
    CreateShaderOfType(g, source, isNull, compiles, ErrVertexShader,
                       "Vertex shader compilation error:")

CreateFragmentShader(g, source, isNull, compiles) ==
    CreateShaderOfType(g, source, isNull, compiles, ErrFragmentShader,
                       "Fragment shader compilation error:")

\* The program takes the declarations of both shaders and the constants of
\* the fragment shader.  A program links only if both shaders compiled.
CreateProgram(g, vertexShader, fragmentShader, isNull, links) ==
    LET a == Alloc(g, "createProgram", isNull, Object("program"))
    IN  IF a.result = Null
        THEN [gl |-> a.gl, result |-> Null, error |-> ErrProgram]
        ELSE LET g1 == Log(a.gl, <<Call("attachShader", ""), Call("attachShader", ""),
                                   Call("linkProgram", ""), Call("getProgramParameter", "")>>)
                 vs == g1.objects[vertexShader]
                 fs == g1.objects[fragmentShader]
                 linked == links /\ vs.ok /\ fs.ok
                 g2 == [g1 EXCEPT
                          !.objects[a.result].source =
                              [fs.source EXCEPT
                                  !.attributes = vs.source.attributes \cup fs.source.attributes,
                                  !.uniforms = vs.source.uniforms \cup fs.source.uniforms],
                          !.objects[a.result].ok = linked]
                 g3 == IF ~linked
                       THEN [Log(g2, <<Call("getProgramInfoLog", "")>>)
                                EXCEPT !.console = Append(@, "Program linking error:")]
                       ELSE g2
             IN  [gl |-> g3, result |-> a.result, error |-> NoError]

CreateFloat32Buffer(g, data, isNull) ==
    LET a == Alloc(g, "createBuffer", isNull, Object("buffer"))
    IN  IF a.result = Null
        THEN [gl |-> a.gl, result |-> Null, error |-> ErrBuffer]
        ELSE [gl |-> [Log(a.gl, <<Call("bindBuffer", ""), Call("bufferData", "")>>)
                         EXCEPT !.buffer = a.result,
                                !.objects[a.result].data = data],
              result |-> a.result, error |-> NoError]

----
\* onAdd.

ErrProjection == "Choropleth grid layer is only supported for Mercator projection."
ErrColorMatrixSize == "Color matrix size does not match color matrix size after transpose."

\* What the context does on a call of onAdd: which create calls return null,
\* and whether the shaders compile and the program links.
Envs ==
    [vsNull : BOOLEAN, vsOk : BOOLEAN, fsNull : BOOLEAN, fsOk : BOOLEAN,
     programNull : BOOLEAN, linkOk : BOOLEAN, bufferNull : BOOLEAN,
     textureNull : BOOLEAN]

\* colorGridFirstRow.map((_, i) => colorGrid.map(row => row[i]))
Transposed(colorGrid) ==
    [i \in 1..Len(colorGrid[1]) |-> [r \in 1..Len(colorGrid) |-> colorGrid[r][i]]]

\* new Uint8Array(flat): every number is stored modulo 256.
Uint8Array(flat) == [k \in 1..Len(flat) |-> flat[k] % 256]

\* GridDataOf without the transposition: the rows of colorGrid, reversed.
GridDataOfUntransposed(colorGrid) ==
    Uint8Array(Flatten([r \in 1..Len(colorGrid) |-> Flatten(Reverse(colorGrid)[r])]))

\* GridDataOf without transposed.reverse().
GridDataOfUnreversed(colorGrid) ==
    Uint8Array(Flatten([r \in 1..Len(Transposed(colorGrid)) |->
                            Flatten(Transposed(colorGrid)[r])]))

\* transposed.reverse(), then every colour of every row pushed onto flat.
GridDataOf(colorGrid) ==
    Uint8Array(Flatten([r \in 1..Len(Transposed(colorGrid)) |->
                            Flatten(Reverse(Transposed(colorGrid))[r])]))

\* CreateTexture creating a second texture.
CreateTextureTwice(g, isNull) ==
    Alloc(Alloc(g, "createTexture", isNull, Object("texture")).gl,
          "createTexture", isNull, Object("texture"))

\* gl.createTexture()
CreateTexture(g, isNull) == Alloc(g, "createTexture", isNull, Object("texture"))

\* Lines 148-155: the texture.  createTexture's result is not checked; with
\* no texture bound, texParameteri and texImage2D change nothing.
CreateGridTexture(g, gridSize, gridData, isNull) ==
    LET a == CreateTexture(g, isNull)
        g1 == Log(a.gl, <<Call("bindTexture", ""), Call("texParameteri", "TEXTURE_WRAP_S"),
                          Call("texParameteri", "TEXTURE_WRAP_T"),
                          Call("texParameteri", "TEXTURE_MIN_FILTER"),
                          Call("texParameteri", "TEXTURE_MAG_FILTER"),
                          Call("pixelStorei", "UNPACK_ALIGNMENT"),
                          Call("texImage2D", "")>>)
        g2 == [g1 EXCEPT !.texture = a.result, !.unpackAlignment = 1]
    IN  [gl |-> IF a.result = Null THEN g2
                ELSE [g2 EXCEPT
                        !.objects[a.result].wrap = "CLAMP_TO_EDGE",
                        !.objects[a.result].filter = "NEAREST",
                        !.objects[a.result].image =
                            [width |-> gridSize.x, height |-> gridSize.y,
                             pixels |-> gridData, uploaded |-> TRUE]],
         result |-> a.result]

VertexData(b) ==
    <<b.bottomLeft.x, b.bottomLeft.y, b.topLeft.x, b.topLeft.y,
      b.bottomRight.x, b.bottomRight.y, b.topRight.x, b.topRight.y>>

\* The projections the host's map can be in (map.getProjection().name).
Projections == {"mercator", "globe"}

\* UnsupportedProjection accepting every projection.
AnyProjectionSupported(m) == FALSE

\* map.getProjection().name !== "mercator"
UnsupportedProjection(m) == m.projection # "mercator"

\* ColorMatrixSizeMismatch accepting every length.
AnyColorMatrixSize(gridSize, gridData) == FALSE

\* gridSize.x * gridSize.y * 4 !== gridData.length
ColorMatrixSizeMismatch(gridSize, gridData) ==
    gridSize.x * gridSize.y * 4 # Len(gridData)

\* The closure, the context and the error after onAdd(map, gl).
OnAddResult(cl, g, m, env) ==
    IF UnsupportedProjection(m)
    THEN [closure |-> cl, gl |-> g, error |-> ErrProjection]
    ELSE
    LET cl1 == [cl EXCEPT !.g_map = m.id]
        vs == CreateVertexShader(g, GetVertexSource, env.vsNull, env.vsOk)
    IN  IF vs.error # NoError
        THEN [closure |-> cl1, gl |-> vs.gl, error |-> vs.error]
        ELSE
    LET fs == CreateFragmentShader(vs.gl,
                  GetFragmentSource(Len(cl.latStepsMercator), cl.gridSize.x, cl.gridSize.y),
                  env.fsNull, env.fsOk)
    IN  IF fs.error # NoError
        THEN [closure |-> cl1, gl |-> fs.gl, error |-> fs.error]
        ELSE
    LET pr == CreateProgram(fs.gl, vs.result, fs.result, env.programNull, env.linkOk)
    IN  IF pr.error # NoError
        THEN [closure |-> cl1, gl |-> pr.gl, error |-> pr.error]
        ELSE
    LET cl2 == [cl1 EXCEPT !.program = pr.result]
        vb == CreateFloat32Buffer(pr.gl, VertexData(cl.dataBoundsMercator), env.bufferNull)
    IN  IF vb.error # NoError
        THEN [closure |-> cl2, gl |-> vb.gl, error |-> vb.error]
        ELSE
    LET cl3 == [cl2 EXCEPT !.bVertex = vb.result]
    IN  IF cl.gridSize.x = 0
        THEN [closure |-> cl3, gl |-> vb.gl, error |-> NoError]
        ELSE
    LET gridData == GridDataOf(cl.colorGrid)
    IN  IF ColorMatrixSizeMismatch(cl.gridSize, gridData)
        THEN [closure |-> cl3, gl |-> vb.gl, error |-> ErrColorMatrixSize]
        ELSE
    LET tx == CreateGridTexture(vb.gl, cl.gridSize, gridData, env.textureNull)
    IN  [closure |-> [cl3 EXCEPT !.tGrid = tx.result], gl |-> tx.gl, error |-> NoError]

OnAdd ==
    /\ layer = "handle"
    /\ calls.onAdd = 0
    /\ \E env \in Envs, projection \in Projections :
        LET m == [map EXCEPT !.projection = projection]
            r == OnAddResult(closure, gl, m, env)
        IN  /\ map' = m
            /\ closure' = r.closure
            /\ gl' = r.gl
            /\ error' = r.error
    /\ calls' = [calls EXCEPT !.last = "onAdd", !.onAdd = @ + 1,
                            !.setup = IF error' = NoError THEN "returned" ELSE "threw",
                            !.setupError = error']
    /\ UNCHANGED <<options, layer, frag>>

----
\* The fragment shader (shaders.ts, main), for the pixel (px, py) of the
\* drawing buffer; gl_FragCoord is the pixel's centre (px + 1/2, py + 1/2).
\* Floats are exact rationals: a coordinate is a numerator over a positive
\* denominator.

Uniform(g, name, default) ==
    IF name \in DOMAIN g.uniforms THEN g.uniforms[name] ELSE default

\* fragCoordMercator = min + size * (n.x, 1.0 - n.y), n = gl_FragCoord / size
FragCoordMercator(g, px, py) ==
    LET size == Uniform(g, "u_drawingBufferSize", <<0, 0>>)
        vmin == Uniform(g, "u_viewportBoundsMercatorMin", <<0, 0>>)
        vsize == Uniform(g, "u_viewportBoundsMercatorSize", <<0, 0>>)
    IN  [xn |-> 2 * size[1] * vmin[1] + vsize[1] * (2 * px + 1), xd |-> 2 * size[1],
         yn |-> 2 * size[2] * vmin[2] + vsize[2] * (2 * size[2] - (2 * py + 1)),
         yd |-> 2 * size[2]]

\* floor((fragCoordMercator.x - u_dataBoundsMercatorMin.x) / u_lngMercatorStep)
LngIndex(g, c) ==
    LET dmin == Uniform(g, "u_dataBoundsMercatorMin", <<0, 0>>)
        step == Uniform(g, "u_lngMercatorStep", <<0>>)
    IN  FloorDiv(c.xn - c.xd * dmin[1], c.xd * step[1])

\* LatScan without the break: the loop goes on after an entry that fails.
RECURSIVE LatScanNoBreak(_, _, _, _, _)
LatScanNoBreak(steps, numLatSteps, c, i, latIndexInt) ==
    IF i >= numLatSteps THEN latIndexInt
    ELSE IF c.yn >= c.yd * (IF i + 1 <= Len(steps) THEN steps[i + 1] ELSE 0)
         THEN LatScanNoBreak(steps, numLatSteps, c, i + 1, i)
         ELSE LatScanNoBreak(steps, numLatSteps, c, i + 1, latIndexInt)

\* The loop over u_latMercatorSteps, from its iteration i (0-based) on:
\* latIndexInt = i while fragCoordMercator.y >= steps[i], break otherwise.
RECURSIVE LatScan(_, _, _, _, _)
LatScan(steps, numLatSteps, c, i, latIndexInt) ==
    IF i >= numLatSteps THEN latIndexInt
    ELSE IF c.yn >= c.yd * (IF i + 1 <= Len(steps) THEN steps[i + 1] ELSE 0)
         THEN LatScan(steps, numLatSteps, c, i + 1, i)
         ELSE latIndexInt

LatIndex(g, numLatSteps, c) ==
    LatScan(Uniform(g, "u_latMercatorSteps", <<>>), numLatSteps, c, 0, 0)

\* Clamp wrapping around, as the REPEAT wrap mode does.
ClampRepeat(v, lo, hi) == lo + ((v - lo) % (hi - lo + 1))

Clamp(v, lo, hi) == Max(lo, Min(v, hi))

Black == <<0, 0, 0, 255>>

\* texture2D(sampler, (un / ud, vn / vd)): the texel of the texture bound to
\* the sampler's unit.  NEAREST takes the texel that contains the coordinate,
\* CLAMP_TO_EDGE the nearest edge texel for a coordinate outside [0, 1].  A
\* missing or incomplete texture samples as opaque black.
Texture2D(g, unit, un, ud, vn, vd) ==
    IF unit # 0 \/ g.texture = Null THEN [texel |-> <<>>, color |-> Black]
    ELSE LET t == g.objects[g.texture]
             w == t.image.width
             h == t.image.height
         IN  IF ~t.image.uploaded \/ w = 0 \/ h = 0 \/ ud = 0 \/ vd = 0
                \/ t.filter # "NEAREST" \/ t.wrap # "CLAMP_TO_EDGE"
             THEN [texel |-> <<>>, color |-> Black]
             ELSE LET col == Clamp(FloorDiv(un * w, ud), 0, w - 1)
                      row == Clamp(FloorDiv(vn * h, vd), 0, h - 1)
                      at == (row * w + col) * 4
                  IN  [texel |-> <<col, row>>,
                       color |-> [k \in 1..4 |-> t.image.pixels[at + k]]]

\* main(): the indices, the sampled texel and gl_FragColor.  Colour channels
\* are bytes (c / 255); gl_FragColor is rgb * opacity * a over 255 * 255 and
\* opacity * a over 255.
FragmentShader(g, px, py) ==
    LET source == g.objects[g.program].source
        c == FragCoordMercator(g, px, py)
        lngIndex == LngIndex(g, c)
        latIndex == LatIndex(g, source.numLatSteps, c)
        s == Texture2D(g, Uniform(g, "u_gridTexture", <<0>>)[1],
                       lngIndex, source.gridSizeX, latIndex, source.gridSizeY)
        opacity == Uniform(g, "u_opacity", <<0>>)[1] * s.color[4]
    IN  [mercator |-> c, lngIndex |-> lngIndex, latIndex |-> latIndex,
         texel |-> s.texel, color |-> s.color,
         fragColor |-> <<s.color[1] * opacity, s.color[2] * opacity,
                         s.color[3] * opacity, opacity>>]

Pixels(g) == (0..(g.drawingBufferWidth - 1)) \X (0..(g.drawingBufferHeight - 1))

NoFrag == [p \in {} |-> <<>>]

----
\* render.

\* gl.uniform*(gl.getUniformLocation(program, name), value): the location is
\* null, and the upload ignored, unless the program linked and has an active
\* uniform of that name.
UploadUniform(g, program, fn, name, value) ==
    LET g1 == Log(g, <<Call("getUniformLocation", name), Call(fn, name)>>)
        p == g.objects[program]
    IN  IF p.ok /\ name \in p.source.uniforms
        THEN [g1 EXCEPT !.uniforms =
                 [n \in DOMAIN @ \cup {name} |-> IF n = name THEN value ELSE @[n]]]
        ELSE g1

RECURSIVE UploadAll(_, _, _)
UploadAll(g, program, ups) ==
    IF ups = <<>> THEN g
    ELSE UploadAll(UploadUniform(g, program, Head(ups)[1], Head(ups)[2], Head(ups)[3]),
                   program, Tail(ups))

\* A handle that was never assigned reaches the context as null.
HandleOrNull(h) == IF h = Undefined THEN Null ELSE h

\* RenderResult keeping the viewport of the first frame: a corner and a size
\* already uploaded are uploaded again in place of the current ones.
RenderResultCachedView(cl, o, g, m, matrix) ==
    LET g0 == [Log(g, <<Call("useProgram", "")>>) EXCEPT !.program = HandleOrNull(cl.program)]
    IN  IF cl.g_map = Undefined \/ cl.program = Undefined
        THEN [gl |-> g0, error |-> ErrTypeError, frag |-> NoFrag]
        ELSE
    LET viewportBoundsMercatorSW == FromLngLat(m.bounds._sw)
        viewportBoundsMercatorNE == FromLngLat(m.bounds._ne)
        viewportBoundsMercatorSize ==
            [x |-> viewportBoundsMercatorNE.x - viewportBoundsMercatorSW.x,
             y |-> viewportBoundsMercatorSW.y - viewportBoundsMercatorNE.y]
        g1 == UploadAll(g0, cl.program, <<
                <<"uniformMatrix4fv", "u_matrix", matrix>>,
                <<"uniform2f", "u_drawingBufferSize",
                    <<g.drawingBufferWidth, g.drawingBufferHeight>> >>,
                <<"uniform2f", "u_viewportBoundsMercatorMin",
                    Uniform(g, "u_viewportBoundsMercatorMin",
                            <<viewportBoundsMercatorSW.x, viewportBoundsMercatorNE.y>>)>>,
                <<"uniform2f", "u_viewportBoundsMercatorSize",
                    Uniform(g, "u_viewportBoundsMercatorSize",
                            <<viewportBoundsMercatorSize.x, viewportBoundsMercatorSize.y>>)>>,
                <<"uniform2f", "u_dataBoundsMercatorMin",
                    <<cl.dataBoundsMercator.topLeft.x, cl.dataBoundsMercator.topLeft.y>> >>,
                <<"uniform1f", "u_lngMercatorStep", <<cl.lngStepMercator>> >>,
                <<"uniform1fv", "u_latMercatorSteps", cl.latStepsMercator>>,
                <<"uniform1f", "u_opacity", <<o.opacity>> >>,
                <<"uniform1i", "u_paletteIndexTexture", <<0>> >> >>)
        g2 == [Log(g1, <<Call("activeTexture", ""), Call("bindTexture", ""),
                         Call("bindBuffer", ""), Call("getAttribLocation", "a_pos"),
                         Call("enableVertexAttribArray", "a_pos"),
                         Call("vertexAttribPointer", "a_pos"),
                         Call("drawArrays", "")>>)
                 EXCEPT !.texture = HandleOrNull(cl.tGrid),
                        !.buffer = HandleOrNull(cl.bVertex),
                        !.draws = @ + 1]
    IN  [gl |-> g2, error |-> NoError,
         frag |-> IF g2.objects[g2.program].ok
                  THEN [p \in Pixels(g2) |-> FragmentShader(g2, p[1], p[2])]
                  ELSE NoFrag]

\* The context, the error and the shaded pixels after render(gl, matrix).
\* g_map.getBounds() throws while g_map is unassigned; getUniformLocation
\* throws for a program that is not a WebGLProgram.
RenderResult(cl, o, g, m, matrix) ==
    LET g0 == [Log(g, <<Call("useProgram", "")>>) EXCEPT !.program = HandleOrNull(cl.program)]
    IN  IF cl.g_map = Undefined \/ cl.program = Undefined
        THEN [gl |-> g0, error |-> ErrTypeError, frag |-> NoFrag]
        ELSE
    LET viewportBoundsMercatorSW == FromLngLat(m.bounds._sw)
        viewportBoundsMercatorNE == FromLngLat(m.bounds._ne)
        viewportBoundsMercatorSize ==
            [x |-> viewportBoundsMercatorNE.x - viewportBoundsMercatorSW.x,
             y |-> viewportBoundsMercatorSW.y - viewportBoundsMercatorNE.y]
        g1 == UploadAll(g0, cl.program, <<
                <<"uniformMatrix4fv", "u_matrix", matrix>>,
                <<"uniform2f", "u_drawingBufferSize",
                    <<g.drawingBufferWidth, g.drawingBufferHeight>> >>,
                <<"uniform2f", "u_viewportBoundsMercatorMin",
                    <<viewportBoundsMercatorSW.x, viewportBoundsMercatorNE.y>> >>,
                <<"uniform2f", "u_viewportBoundsMercatorSize",
                    <<viewportBoundsMercatorSize.x, viewportBoundsMercatorSize.y>> >>,
                <<"uniform2f", "u_dataBoundsMercatorMin",
                    <<cl.dataBoundsMercator.topLeft.x, cl.dataBoundsMercator.topLeft.y>> >>,
                <<"uniform1f", "u_lngMercatorStep", <<cl.lngStepMercator>> >>,
                <<"uniform1fv", "u_latMercatorSteps", cl.latStepsMercator>>,
                <<"uniform1f", "u_opacity", <<o.opacity>> >>,
                <<"uniform1i", "u_paletteIndexTexture", <<0>> >> >>)
        g2 == [Log(g1, <<Call("activeTexture", ""), Call("bindTexture", ""),
                         Call("bindBuffer", ""), Call("getAttribLocation", "a_pos"),
                         Call("enableVertexAttribArray", "a_pos"),
                         Call("vertexAttribPointer", "a_pos"),
                         Call("drawArrays", "")>>)
                 EXCEPT !.texture = HandleOrNull(cl.tGrid),
                        !.buffer = HandleOrNull(cl.bVertex),
                        !.draws = @ + 1]
    IN  [gl |-> g2, error |-> NoError,
         frag |-> IF g2.objects[g2.program].ok
                  THEN [p \in Pixels(g2) |-> FragmentShader(g2, p[1], p[2])]
                  ELSE NoFrag]

\* The host: the views map.getBounds() returns.

LngLine(o, k) == o.offset.lng + k * o.stepSize.lng
LatLine(o, k) == o.offset.lat + k * o.stepSize.lat

Bounds(o, w, s, e, n) ==
    [_sw |-> [lng |-> LngLine(o, w), lat |-> LatLine(o, s)],
     _ne |-> [lng |-> LngLine(o, e), lat |-> LatLine(o, n)]]

View(b, n) == [bounds |-> b, size |-> n]

\* The views of the host: the map's bounds and the side of the square
\* drawing buffer.  One pixel on each cell of a MaxX x MaxY grid; the
\* origin cell on MaxBuffer pixels; one pixel on the first 2 x 2 cells; the
\* whole grid, bare and with a margin of one cell, on MaxBuffer pixels; one
\* pixel on the cell-sized area south-west of the origin, off the grid.
Views(o) ==
    {View(Bounds(o, i, j, i + 1, j + 1), 1) : i \in 0..(MaxX - 1), j \in 0..(MaxY - 1)}
    \cup {View(Bounds(o, -1, -1, 0, 0), 1),
          View(Bounds(o, 0, 0, 1, 1), MaxBuffer),
          View(Bounds(o, 0, 0, 2, 2), 1),
          View(Bounds(o, 0, 0, MaxX, MaxY), MaxBuffer),
          View(Bounds(o, -1, -1, MaxX + 1, MaxY + 1), MaxBuffer)}

World == [_sw |-> [lng |-> -180, lat |-> -85], _ne |-> [lng |-> 180, lat |-> 85]]

\* The host's state at a frame: the user has panned and zoomed the map to
\* the bounds of v and the drawing buffer has the size of v.
ViewOf(m, v) == [m EXCEPT !.bounds = v.bounds]
BufferOf(g, v) == [g EXCEPT !.drawingBufferWidth = v.size, !.drawingBufferHeight = v.size]

\* The view of the current frame.  A layer that holds no map yet has no view
\* to read: render fails before it reads one.
FrameViews ==
    IF closure.g_map = Undefined
    THEN {View(map.bounds, gl.drawingBufferWidth)}
    ELSE Views(options)

Matrix == <<1>>

\* The host calls render once per frame, with the view of that frame.
Render ==
    /\ layer = "handle"
    /\ calls.render < MaxRenders
    /\ \E v \in FrameViews :
        LET r == RenderResult(closure, options, BufferOf(gl, v), ViewOf(map, v), Matrix)
        IN  /\ map' = ViewOf(map, v)
            /\ gl' = r.gl
            /\ error' = r.error
            /\ frag' = r.frag
    /\ calls' = [calls EXCEPT !.last = "render", !.render = @ + 1]
    /\ UNCHANGED <<options, layer, closure>>

----
Init ==
    /\ options \in Options
    /\ map = [id |-> 1, projection |-> "mercator", bounds |-> World]
    /\ layer = "none"
    /\ closure = EmptyClosure
    /\ gl = EmptyGL
    /\ error = NoError
    /\ calls = [last |-> "none", onAdd |-> 0, render |-> 0,
                setup |-> "none", setupError |-> NoError]
    /\ frag = NoFrag

Next == CreateLayer \/ OnAdd \/ Render

Spec == Init /\ [][Next]_vars

----
\* Notions the properties share.

GridSize == closure.gridSize

\* Every colour getColor returned is a Color: four components in [0, 255].
IsColor(color) == Len(color) = 4 /\ ColorInRange(color)

ValidColors ==
    \A i \in 1..Len(closure.colorGrid) : \A j \in 1..Len(closure.colorGrid[i]) :
        IsColor(closure.colorGrid[i][j])

\* The last draw call ran the shader: the program linked and the texture that
\* onAdd uploaded is the one bound.
Shaded ==
    /\ layer = "handle"
    /\ calls.last = "render"
    /\ frag # NoFrag
    /\ closure.tGrid \notin {Undefined, Null}

\* The projected rectangle of cell (i, j), 0-based, i along the longitude and
\* j along the latitude, counted from the south-west origin.
CellWest(i) == MercatorX(LngLine(options, i))
CellEast(i) == MercatorX(LngLine(options, i + 1))
CellNorth(j) == MercatorY(LatLine(options, j + 1))
CellSouth(j) == MercatorY(LatLine(options, j))

\* The fragment c is at the exact centre of cell (i, j).
AtCentre(c, i, j) ==
    /\ 2 * c.xn = c.xd * (CellWest(i) + CellEast(i))
    /\ 2 * c.yn = c.yd * (CellNorth(j) + CellSouth(j))

\* The fragment c is within the data bounds, edges included.
WithinDataBounds(c) ==
    /\ c.xn >= c.xd * CellWest(0) /\ c.xn <= c.xd * CellEast(GridSize.x - 1)
    /\ c.yn >= c.yd * CellNorth(GridSize.y - 1) /\ c.yn <= c.yd * CellSouth(0)

\* The shaded fragment f sampled the colour of dataGrid[i][j].
RecoversCell(f, i, j) ==
    /\ f.texel = <<i, GridSize.y - 1 - j>>
    /\ f.color = GetColor(options.getColor, options.dataGrid[i + 1].cells[j + 1])

----
\* C1: round trip of encode and lookup.  After setup packed a grid of valid
\* colours, a fragment at the exact centre of cell (i, j) samples the texel
\* that holds getColor(dataGrid[i][j]); in a 1 x 1 grid so does every
\* fragment within the data bounds.
C1_RoundTrip ==
    (Shaded /\ ValidColors) =>
        \A p \in DOMAIN frag :
            /\ \A i \in 0..(GridSize.x - 1), j \in 0..(GridSize.y - 1) :
                 AtCentre(frag[p].mercator, i, j) => RecoversCell(frag[p], i, j)
            /\ (GridSize.x = 1 /\ GridSize.y = 1 /\ WithinDataBounds(frag[p].mercator))
                 => RecoversCell(frag[p], 0, 0)

\* A fragment at the centre of cell (1, 0) of a grid of at least 2 x 2 cells
\* sampled texel column 1.
C1_Witness ==
    /\ Shaded /\ ValidColors
    /\ GridSize.x >= 2 /\ GridSize.y >= 2
    /\ \E p \in DOMAIN frag :
        /\ AtCentre(frag[p].mercator, 1, 0)
        /\ RecoversCell(frag[p], 1, 0)

----
\* C2: createLayer throws for an offset out of range.
OffsetOutOfRange ==
    \/ options.offset.lat < -90 \/ options.offset.lat > 90
    \/ options.offset.lng < -180 \/ options.offset.lng > 180

\* C2: whenever offset.lat is outside [-90, 90] or offset.lng is outside
\* [-180, 180], createLayer throws and returns no layer handle.
C2_OffsetRejected ==
    (layer # "none" /\ OffsetOutOfRange) => layer = "threw"

----
\* C3: the other inputs createLayer must reject.
DefinedRows == {k \in 1..Len(options.dataGrid) : options.dataGrid[k].defined}

Jagged ==
    \E a \in DefinedRows, b \in DefinedRows :
        Len(options.dataGrid[a].cells) # Len(options.dataGrid[b].cells)

HasUndefinedRow == DefinedRows # 1..Len(options.dataGrid)

ComponentOutOfRange ==
    \E i \in DefinedRows : \E j \in 1..Len(options.dataGrid[i].cells) :
        LET color == GetColor(options.getColor, options.dataGrid[i].cells[j])
        IN  \E k \in 1..Len(color) : color[k] < 0 \/ color[k] > 255

RejectedInput ==
    \/ options.stepSize.lat <= 0 \/ options.stepSize.lat > 180
    \/ options.stepSize.lng <= 0 \/ options.stepSize.lng > 360
    \/ Jagged
    \/ HasUndefinedRow
    \/ options.opacity < 0 \/ options.opacity > 1
    \/ ComponentOutOfRange

\* C3: createLayer throws, returns no handle and touches no GPU resource
\* whenever stepSize.lat is outside (0, 180], stepSize.lng is outside
\* (0, 360], the rows have unequal lengths, a row is undefined, the opacity
\* is outside [0, 1] or getColor returns a component outside [0, 255].
C3_ValidationRejects ==
    (layer # "none" /\ RejectedInput) =>
        /\ layer = "threw"
        /\ error # NoError
        /\ closure = EmptyClosure
        /\ gl = EmptyGL

\* createLayer threw for stepSize.lng = 0, everything else being valid.
C3_Witness ==
    /\ layer = "threw"
    /\ calls.last = "createLayer"
    /\ options.stepSize.lng = 0
    /\ ~OffsetOutOfRange
    /\ error = ErrStepLng
    /\ gl = EmptyGL

----
\* C4: whenever createLayer returns a layer handle every entry of the colour
\* grid has exactly four components, each in [0, 255]; a getColor result of
\* another shape makes createLayer fail.
C4_ColorShapeEnforced ==
    /\ layer = "handle" => ValidColors
    /\ (layer # "none"
        /\ \E i \in DefinedRows : \E j \in 1..Len(options.dataGrid[i].cells) :
              ~IsColor(GetColor(options.getColor, options.dataGrid[i].cells[j])))
       => layer = "threw"

----
\* C5: when the host's projection is not mercator, onAdd throws before it
\* calls any GPU primitive and before it assigns any of the layer's state.
C5_ProjectionPrecondition ==
    [][(calls'.onAdd # calls.onAdd /\ map'.projection # "mercator") =>
          /\ error' = ErrProjection
          /\ calls'.setup = "threw"
          /\ gl' = gl
          /\ closure' = closure]_vars

\* onAdd threw for the globe projection and left the layer without a map.
C5_Witness ==
    /\ calls.last = "onAdd"
    /\ map.projection = "globe"
    /\ error = ErrProjection
    /\ closure.g_map = Undefined
    /\ gl.objects = <<>>

----
\* C6: the three GPU handles.
IsHandle(h) == h \in 1..Len(gl.objects)

\* Each creation primitive of the three handles was called exactly once and
\* the layer holds its result: the one program, the one buffer and the one
\* texture of the context (null if createTexture returned null).
CreatedOnce ==
    /\ Count(gl.log, "createProgram") = 1
    /\ Count(gl.log, "createBuffer") = 1
    /\ Count(gl.log, "createTexture") = 1
    /\ IsHandle(closure.program) /\ gl.objects[closure.program].kind = "program"
    /\ IsHandle(closure.bVertex) /\ gl.objects[closure.bVertex].kind = "buffer"
    /\ IF \E k \in 1..Len(gl.log) : gl.log[k] = Call("createTexture", "null")
       THEN closure.tGrid = Null
       ELSE IsHandle(closure.tGrid) /\ gl.objects[closure.tGrid].kind = "texture"

----
\* C7: a null handle returned by any creation primitive during setup is
\* fatal: setup throws at that call and makes no further GPU call.
C7_NullHandleFatal ==
    (calls.last = "onAdd" /\ \E k \in 1..Len(gl.log) : gl.log[k].arg = "null") =>
        /\ calls.setup = "threw"
        /\ gl.log[Len(gl.log)].arg = "null"

----
\* C8: a shader that does not compile, a program that does not link.
BuildFailed ==
    \E k \in 1..Len(gl.objects) :
        gl.objects[k].kind \in {"shader", "program"} /\ ~gl.objects[k].ok

NoNullHandle == \A k \in 1..Len(gl.log) : gl.log[k].arg # "null"

\* C8: when a shader fails to compile or the program fails to link, every
\* handle being non-null, setup on a grid of at least one row of valid
\* colours reports the failure on the console, does not throw, and stores
\* the program, the vertex buffer and the texture; every later render runs
\* to its draw call.
C8_BuildFailureNotFatal ==
    (calls.setup # "none" /\ BuildFailed /\ NoNullHandle
     /\ GridSize.x > 0 /\ ValidColors) =>
        /\ calls.setup = "returned"
        /\ gl.console # <<>>
        /\ IsHandle(closure.program) /\ IsHandle(closure.bVertex)
        /\ IsHandle(closure.tGrid) /\ gl.objects[closure.tGrid].image.uploaded
        /\ calls.last = "render" =>
              /\ error = NoError
              /\ gl.log[Len(gl.log)].fn = "drawArrays"

\* A render that drew with a program whose shaders did not build.
C8_Witness ==
    /\ calls.setup = "returned" /\ BuildFailed /\ NoNullHandle
    /\ GridSize.x > 0 /\ ValidColors
    /\ calls.last = "render"
    /\ gl.draws >= 1
    /\ IsHandle(closure.tGrid)

----
\* C9: the latitude step table.
Rows == IF Len(options.dataGrid) > 0 THEN Len(options.dataGrid[1].cells) ELSE 0
NorthLat == options.offset.lat + Rows * options.stepSize.lat

\* C9: the table has gridSize.y + 1 entries; entry k is the projected y of
\* the latitude k steps south of the north bound, so the first is the north
\* bound, the last the south bound and each entry lies south of the one
\* before; the fragment shader's array bound is that same length.
C9_LatStepTable ==
    layer = "handle" =>
        LET steps == closure.latStepsMercator
        IN  /\ Len(steps) = Rows + 1
            /\ \A k \in 1..Len(steps) :
                  steps[k] = MercatorY(NorthLat - (k - 1) * options.stepSize.lat)
            /\ steps[1] = closure.dataBoundsMercator.topLeft.y
            /\ steps[Len(steps)] = closure.dataBoundsMercator.bottomLeft.y
            /\ \A k \in 1..(Len(steps) - 1) : steps[k] < steps[k + 1]
            /\ \A k \in 1..Len(gl.objects) :
                  "u_latMercatorSteps" \in gl.objects[k].source.uniforms
                      => gl.objects[k].source.numLatSteps = Rows + 1

\* A table of three entries for two latitude rows, compiled into a shader.
C9_Witness ==
    /\ layer = "handle"
    /\ Rows = 2
    /\ Len(closure.latStepsMercator) = 3
    /\ calls.setup = "returned"
    /\ \E k \in 1..Len(gl.objects) : gl.objects[k].source.numLatSteps = 3

----
\* C10: every texture image that setup uploaded has gridSize.x * gridSize.y
\* * 4 bytes; when the packed buffer has another length setup throws and
\* neither creates a texture nor uploads one.
C10_PackedLength ==
    /\ \A k \in 1..Len(gl.objects) :
          gl.objects[k].image.uploaded =>
              Len(gl.objects[k].image.pixels) = GridSize.x * GridSize.y * 4
    /\ (closure.bVertex # Undefined /\ GridSize.x > 0
        /\ Len(GridDataOf(closure.colorGrid)) # GridSize.x * GridSize.y * 4) =>
          /\ calls.setup = "threw"
          /\ calls.setupError = ErrColorMatrixSize
          /\ Count(gl.log, "createTexture") = 0
          /\ Count(gl.log, "texImage2D") = 0
          /\ closure.tGrid = Undefined

\* Setup threw on a packed buffer of three bytes per cell.
C10_Witness ==
    /\ calls.setupError = ErrColorMatrixSize
    /\ GridSize.x > 0 /\ GridSize.y > 0
    /\ Len(GridDataOf(closure.colorGrid)) = GridSize.x * GridSize.y * 3
    /\ Count(gl.log, "createTexture") = 0

----
\* C11: the names of the shader interface.

\* The names render passes to getUniformLocation and getAttribLocation.
UploadedNames ==
    {gl.log[k].arg : k \in {n \in 1..Len(gl.log) :
                              gl.log[n].fn \in {"getUniformLocation", "getAttribLocation"}}}

\* The attribute and the uniforms the two generated sources declare.
DeclaredNames ==
    GetVertexSource.attributes \cup GetVertexSource.uniforms
    \cup GetFragmentSource(0, 0, 0).attributes \cup GetFragmentSource(0, 0, 0).uniforms

\* C11: the names a render call uploads or binds are exactly the names the
\* generated shader sources declare (a_pos, u_matrix and the eight uniforms
\* of the fragment shader, u_gridTexture among them, set to texture unit 0):
\* none is uploaded that is not declared, none declared is left unset.
C11_UniformContract ==
    (calls.last = "render" /\ error = NoError) =>
        /\ UploadedNames = DeclaredNames
        /\ gl.objects[closure.program].ok =>
              /\ DOMAIN gl.uniforms = DeclaredNames \ {"a_pos"}
              /\ gl.uniforms["u_gridTexture"] = <<0>>

----
\* C12: the viewport of the frame.

\* The min corner and the size of the host's view, in projected space: west
\* and north for the corner, the extent eastwards and southwards.
ViewportMin(m) == <<MercatorX(m.bounds._sw.lng), MercatorY(m.bounds._ne.lat)>>
ViewportSize(m) ==
    <<MercatorX(m.bounds._ne.lng) - MercatorX(m.bounds._sw.lng),
      MercatorY(m.bounds._sw.lat) - MercatorY(m.bounds._ne.lat)>>

\* C12: every render call leaves the layer's stored state as it was, and a
\* render call that draws with a linked program has uploaded the min corner
\* and the size of the view the host has at that call, whatever the views of
\* the frames before.
C12_ViewportPerFrame ==
    [][calls'.render # calls.render =>
          /\ closure' = closure
          /\ (error' = NoError /\ gl'.objects[closure'.program].ok) =>
                /\ gl'.uniforms["u_viewportBoundsMercatorMin"] = ViewportMin(map')
                /\ gl'.uniforms["u_viewportBoundsMercatorSize"] = ViewportSize(map')]_vars

\* A second frame, drawn for the view of cell (1, 1) alone: the uniforms hold
\* that view's corner and size.
C12_Witness ==
    /\ calls.last = "render" /\ calls.render = 2 /\ error = NoError
    /\ gl.objects[closure.program].ok
    /\ map.bounds = Bounds(options, 1, 1, 2, 2)
    /\ gl.uniforms["u_viewportBoundsMercatorMin"] = ViewportMin(map)
    /\ gl.uniforms["u_viewportBoundsMercatorSize"] = ViewportSize(map)

----
\* C13: the latitude scan of the fragment shader, run on its own: a context
\* whose u_latMercatorSteps holds any table, in any order, and one fragment.

StepValues == 0..2
FragmentYs == -1..3

StepTables == UNION {[1..n -> StepValues] : n \in 0..MaxSteps}

\* A context whose current program has the table as its uniform.
ContextOfTable(steps) ==
    [EmptyGL EXCEPT !.uniforms = [n \in {"u_latMercatorSteps"} |-> steps]]

FragmentAt(y) == [xn |-> 0, xd |-> 1, yn |-> y, yd |-> 1]

ScanInit ==
    /\ options = CHOOSE o \in Options : CreateLayerError(o) = NoError
    /\ map = [id |-> 1, projection |-> "mercator", bounds |-> World]
    /\ layer = "none"
    /\ closure = EmptyClosure
    /\ gl \in {ContextOfTable(steps) : steps \in StepTables}
    /\ error = NoError
    /\ calls = [last |-> "none", onAdd |-> 0, render |-> 0,
                setup |-> "none", setupError |-> NoError]
    /\ frag = NoFrag

\* The shader's loop for one fragment; numLatSteps is the length of the table.
Scan ==
    /\ frag = NoFrag
    /\ \E y \in FragmentYs :
        LET steps == gl.uniforms["u_latMercatorSteps"]
        IN  frag' = [p \in {<<0, 0>>} |->
                        [mercator |-> FragmentAt(y),
                         latIndex |-> LatIndex(gl, Len(steps), FragmentAt(y))]]
    /\ UNCHANGED <<options, map, layer, closure, gl, error, calls>>

ScanNext == Scan

ScanSpec == ScanInit /\ [][ScanNext]_vars

ScanTable == gl.uniforms["u_latMercatorSteps"]
ScanY == frag[<<0, 0>>].mercator.yn
ScanIndex == frag[<<0, 0>>].latIndex

\* The positions (0-based) of the initial run of entries e with y >= e.
InitialRun ==
    {k \in 0..(Len(ScanTable) - 1) : \A m \in 0..k : ScanY >= ScanTable[m + 1]}

\* The positions (0-based) of all entries e with y >= e.
Matches == {k \in 0..(Len(ScanTable) - 1) : ScanY >= ScanTable[k + 1]}

Greatest(S) == CHOOSE k \in S : \A m \in S : m <= k

Ascending(steps) == \A k \in 1..(Len(steps) - 1) : steps[k] <= steps[k + 1]

\* C13: the scan returns the position of the last entry of the initial run
\* of entries e with y >= e, and 0 when the first entry already fails; an
\* entry after a failing one is never selected even if y >= it; for a table
\* in north-to-south order (ascending y) with an entry <= y, that is the
\* greatest index whose entry is <= y.
C13_LatScan ==
    frag # NoFrag =>
        /\ ScanIndex = (IF InitialRun = {} THEN 0 ELSE Greatest(InitialRun))
        /\ \A k \in 0..(Len(ScanTable) - 1) :
              ScanY < ScanTable[k + 1] => (ScanIndex < k \/ ScanIndex = 0)
        /\ (Ascending(ScanTable) /\ Matches # {}) => ScanIndex = Greatest(Matches)

\* Two entries pass, the third fails, the fourth would pass again: the scan
\* stays at position 1.
C13_Witness ==
    /\ frag # NoFrag
    /\ Len(ScanTable) = 4
    /\ ScanY >= ScanTable[1] /\ ScanY >= ScanTable[2]
    /\ ScanY < ScanTable[3] /\ ScanY >= ScanTable[4]
    /\ ScanIndex = 1

----
\* C14: indices off the grid.

\* The index of the edge cell nearest to an index, on an axis of `size` cells.
NearestEdge(index, size) ==
    IF index < 0 THEN 0 ELSE IF index >= size THEN size - 1 ELSE index

\* C14: on a grid that has cells, a fragment whose longitude index is
\* outside [0, gridSize.x) or whose latitude index is outside
\* [0, gridSize.y) samples the nearest edge texel on that axis (an index
\* within the range samples its own texel), so that the sampled colour is
\* always the colour getColor gave to some cell of the grid.
C14_EdgeClamping ==
    (Shaded /\ GridSize.y > 0) =>
        \A p \in DOMAIN frag :
            LET col == NearestEdge(frag[p].lngIndex, GridSize.x)
                row == NearestEdge(frag[p].latIndex, GridSize.y)
            IN  /\ frag[p].texel = <<col, row>>
                /\ RecoversCell(frag[p], col, GridSize.y - 1 - row)

\* A fragment south-west of a grid of two columns: its longitude index is
\* negative, its latitude index is gridSize.y, and it sampled the colour of
\* the south-west cell.
C14_Witness ==
    /\ Shaded /\ GridSize.x = 2 /\ GridSize.y > 0
    /\ \E p \in DOMAIN frag :
        /\ frag[p].lngIndex < 0
        /\ frag[p].latIndex = GridSize.y
        /\ RecoversCell(frag[p], 0, 0)

----
\* C15: the layout of the packed buffer.

\* The texture that setup uploaded for a grid with cells.
Packed ==
    /\ calls.setup = "returned"
    /\ IsHandle(closure.tGrid)
    /\ GridSize.y > 0

\* Byte k (1..4) of texel (col, row) of the uploaded buffer, in row-major
\* texture order.
TexelByte(col, row, k) ==
    gl.objects[closure.tGrid].image.pixels[(row * GridSize.x + col) * 4 + k]

\* Texture row `row` holds the colours of the cells dataGrid[0][j],
\* dataGrid[1][j], ..., dataGrid[gridSize.x - 1][j], in that order.
RowHoldsDataRow(row, j) ==
    \A i \in 0..(GridSize.x - 1), k \in 1..4 :
        TexelByte(i, row, k) =
            GetColor(options.getColor, options.dataGrid[i + 1].cells[j + 1])[k]

\* C15, as stated: the buffer is the transposed colour grid with its rows
\* reversed, such that texture row 0 (the first gridSize.x texels) holds the
\* southernmost data row, dataGrid[0][0], dataGrid[1][0], ...
C15_SouthernmostFirst ==
    Packed => RowHoldsDataRow(0, 0)

\* C15, amended: the buffer is the transposed colour grid (latitude axis
\* outer, longitude axis inner) with its rows reversed, such that texture
\* row r holds data row gridSize.y - 1 - r: texture row 0 is the
\* northernmost data row, dataGrid[0][gridSize.y - 1], dataGrid[1][gridSize.y
\* - 1], ..., and the southernmost row, next to the offset, is the last.
C15_NorthernmostFirst ==
    Packed =>
        /\ gl.objects[closure.tGrid].image.width = GridSize.x
        /\ gl.objects[closure.tGrid].image.height = GridSize.y
        /\ \A row \in 0..(GridSize.y - 1) : RowHoldsDataRow(row, GridSize.y - 1 - row)

\* The texture of a grid of two columns and two cells per column: its first
\* two texels are the colours of dataGrid[0][1] and dataGrid[1][1].
C15_Witness ==
    /\ Packed
    /\ GridSize.x = 2 /\ GridSize.y = 2
    /\ RowHoldsDataRow(0, 1)
    /\ ~RowHoldsDataRow(0, 0)

----
\* C16: render issues its draw call only after a setup call that ran to
\* completion has set the program, the vertex buffer and the texture: for
\* every input createLayer accepts, the empty grid included, no draw call is
\* made while one of the three handles is unset.
C16_DrawsOnlyWhenSetUp ==
    gl.draws > 0 =>
        /\ calls.setup = "returned"
        /\ closure.program # Undefined
        /\ closure.bVertex # Undefined
        /\ closure.tGrid # Undefined

====
